---------------------------- MODULE Spec2Model ----------------------------
(***************************************************************************)
(* The Work-In-Office calculator of src/server3.py as a state machine.     *)
(*                                                                         *)
(* State: the three SQLite tables (daily_status, custom_holidays,          *)
(* settings), the session cookie's logged_in entry, the import-time flag   *)
(* HAS_CHINESE_CALENDAR, and whether a connection that a failed handler    *)
(* never closed still holds the database's write lock, and the requests   *)
(* the threaded server is still answering.  A handler that runs a single   *)
(* statement or a single transaction is one action.  get_month_data and    *)
(* export_data read the database several times, each read on its own       *)
(* connection or in autocommit, so each of them is one action per read     *)
(* that another request can come between; the request in flight carries    *)
(* what it has read so far.  response records the last exchange.           *)
(*                                                                         *)
(* Representation.                                                         *)
(*   - A JSON null / SQL NULL is NULL (the empty tuple); any other scalar  *)
(*     v is Val(v) (a one-element tuple), so a nullable column compares    *)
(*     safely.  A JSON object is a record; an absent key is absent from    *)
(*     its DOMAIN.                                                         *)
(*   - A table is the sequence of its rows in rowid order.                 *)
(*   - work_hours, total_workdays, wio_days, remaining_workdays and        *)
(*     days_needed are counted in half days (1.0 is FullDay = 2); all      *)
(*     hours the requests carry are multiples of 0.5, which binary         *)
(*     floating point adds exactly.  wio_percentage is counted in tenths   *)
(*     of a percent.                                                       *)
(*   - A settings value is its text; a JSON number is written as the text  *)
(*     str() and SQLite's TEXT affinity both give it.                      *)
(***************************************************************************)
EXTENDS Integers, Sequences, FiniteSets, TLC

VARIABLES
    session_logged_in,      \* session.get('logged_in')
    daily_status,           \* rows [date, status, work_hours]
    custom_holidays,        \* rows [date, description, is_workday]
    settings,               \* rows [key, value]
    HAS_CHINESE_CALENDAR,   \* whether `import chinesecalendar` succeeded
    db_locked,              \* an unclosed connection holds an open write transaction
    in_flight,              \* the get_month_data / export_data requests being answered
    response                \* the last response, with the handler that gave it

vars == <<session_logged_in, daily_status, custom_holidays, settings,
          HAS_CHINESE_CALENDAR, db_locked, in_flight, response>>

tables == <<daily_status, custom_holidays, settings>>

-----------------------------------------------------------------------------
(* Values *)

NULL == <<>>
Val(v) == <<v>>
Get(x) == x[1]

\* Rows a table may hold in the model; an insert that would exceed it is not taken.
MaxRows == 2

\* Requests get_month_data and export_data may have in flight at once; one
\* that would exceed it is not admitted.
MaxInFlight == 1

\* work_hours 1.0, in half days.
FullDay == 2

\* dict.get(key, default) on a JSON object.
GetOr(obj, key, default) == IF key \in DOMAIN obj THEN obj[key] ELSE default

Max(a, b) == IF a >= b THEN a ELSE b

-----------------------------------------------------------------------------
(* The calendar: datetime.date and calendar.monthrange *)

IsLeap(y) == (y % 4 = 0) /\ ((y % 100 # 0) \/ (y % 400 = 0))

\* calendar.monthrange(year, month)[1]
DaysInMonth(y, m) ==
    IF m = 2 THEN (IF IsLeap(y) THEN 29 ELSE 28)
    ELSE IF m \in {4, 6, 9, 11} THEN 30 ELSE 31

RECURSIVE DaysBeforeMonth(_, _)
DaysBeforeMonth(y, m) ==
    IF m = 1 THEN 0 ELSE DaysBeforeMonth(y, m - 1) + DaysInMonth(y, m - 1)

\* date.toordinal(): 1 for 0001-01-01
ToOrdinal(y, m, d) ==
    365 * (y - 1) + ((y - 1) \div 4) - ((y - 1) \div 100) + ((y - 1) \div 400)
      + DaysBeforeMonth(y, m) + d

\* date.weekday(): Monday is 0, Sunday is 6
Weekday(y, m, d) == (ToOrdinal(y, m, d) + 6) % 7

Pad2(n) == IF n < 10 THEN "0" \o ToString(n) ELSE ToString(n)

\* date.strftime('%Y-%m-%d')
Strftime(y, m, d) == ToString(y) \o "-" \o Pad2(m) \o "-" \o Pad2(d)

\* f'{year}-{month:02d}-%' and f'{year}-%', without the trailing %
MonthPrefix(y, m) == ToString(y) \o "-" \o Pad2(m) \o "-"
YearPrefix(y) == ToString(y) \o "-"

\* SQL: column LIKE 'prefix%'.  NULL LIKE ... is not true.
Like(col, prefix) ==
    /\ col # NULL
    /\ Len(Get(col)) >= Len(prefix)
    /\ SubSeq(Get(col), 1, Len(prefix)) = prefix

-----------------------------------------------------------------------------
(* chinesecalendar for 2025: the weekdays off and the weekend days worked  *)

LegalHolidays2025 ==
    {<<1, 1>>} \cup {<<1, d>> : d \in 28..31} \cup {<<2, d>> : d \in 1..4}
    \cup {<<4, d>> : d \in 4..6} \cup {<<5, d>> : d \in 1..5}
    \cup {<<5, 31>>, <<6, 1>>, <<6, 2>>} \cup {<<10, d>> : d \in 1..8}

MakeupWorkdays2025 ==
    {<<1, 26>>, <<2, 8>>, <<4, 27>>, <<9, 28>>, <<10, 11>>}

\* cc.is_holiday(date): a day off, a worked weekend day excepted
CcIsHoliday(y, m, d) ==
    /\ <<m, d>> \notin MakeupWorkdays2025
    /\ (Weekday(y, m, d) >= 5 \/ <<m, d>> \in LegalHolidays2025)

\* The years and months the requests ask for.
Years == {2025}
Months == {<<2025, 1>>}

\* The date texts the requests carry, in SQLite's (binary) text order.
DateTexts == <<"2025-01-02", "2025-01-04">>

\* Every day of those years with its strftime text, weekday and cc.is_holiday,
\* worked out once.
Days == {<<y, m, d>> \in Years \X (1..12) \X (1..31) : d <= DaysInMonth(y, m)}
Calendar ==
    [y \in Years |-> [m \in 1..12 |-> [d \in 1..DaysInMonth(y, m) |->
        [date_str |-> Strftime(y, m, d),
         weekday |-> Weekday(y, m, d),
         cc_is_holiday |-> CcIsHoliday(y, m, d)]]]]

\* The entry of a day given as <<year, month, day>>.
DayOf(date) == Calendar[date[1]][date[2]][date[3]]

-----------------------------------------------------------------------------
(* SQL on a table *)

\* INSERT OR REPLACE on a table whose PRIMARY KEY column k is not declared
\* NOT NULL: the row with the same non-NULL key goes, the new row gets the
\* next rowid.  A NULL key conflicts with nothing.
InsertOrReplace(table, k, row) ==
    SelectSeq(table, LAMBDA r : r[k] = NULL \/ r[k] # row[k]) \o <<row>>

\* DELETE FROM table WHERE k = ?   (k = NULL is never true)
DeleteWhere(table, k, v) ==
    SelectSeq(table, LAMBDA r : r[k] = NULL \/ v = NULL \/ r[k] # v)

\* SELECT ... WHERE k = ?  .fetchone(): the first matching row, or NULL
FetchOne(table, k, v) ==
    LET hit == SelectSeq(table, LAMBDA r : r[k] # NULL /\ v # NULL /\ r[k] = v)
    IN  IF hit = <<>> THEN NULL ELSE Val(hit[1])

\* COALESCE(work_hours, 1.0)
Coalesce(h) == IF h = NULL THEN FullDay ELSE Get(h)

-----------------------------------------------------------------------------
(* The workday classifier and the monthly statistics *)

\* bool(custom_holiday['is_workday'])
Bool(v) == v # NULL /\ Get(v) # 0

\* is_workday(target_date)
IsWorkday(y, m, d) ==
    IF Calendar[y][m][d].weekday >= 5 THEN FALSE
    ELSE IF HAS_CHINESE_CALENDAR /\ Calendar[y][m][d].cc_is_holiday THEN FALSE
    ELSE LET custom_holiday ==
                 FetchOne(custom_holidays, "date", Val(Calendar[y][m][d].date_str))
         IN  IF custom_holiday # NULL
             THEN Bool(Get(custom_holiday).is_workday)
             ELSE TRUE

\* The rows of SELECT date, status, COALESCE(work_hours, 1.0) ... WHERE date LIKE ?
StatusData(y, m) ==
    LET rows == SelectSeq(daily_status, LAMBDA r : Like(r.date, MonthPrefix(y, m)))
    IN  [i \in DOMAIN rows |->
            [date |-> rows[i].date, status |-> Get(rows[i].status),
             work_hours |-> Coalesce(rows[i].work_hours)]]

\* status_dict.get(date_str, default): a dict keeps the last row of a key
DictGet(rows, date_str, default) ==
    LET hit == SelectSeq(rows, LAMBDA r : r.date = Val(date_str))
    IN  IF hit = <<>> THEN default
        ELSE [status |-> hit[Len(hit)].status, work_hours |-> hit[Len(hit)].work_hours]

\* round(wio_days / total_workdays * 100, 1), in tenths of a percent, for
\* total_workdays > 0: to the nearest tenth, a tie to the even one.  (On the
\* totals a month can reach, below 40 days, this is what the double
\* arithmetic gives.)
Round1(wio, total) ==
    LET n == 1000 * wio
        q == n \div total
        r == n - q * total
    IN  IF 2 * r > total THEN q + 1
        ELSE IF 2 * r = total THEN q + (q % 2)
        ELSE q

\* The days of a month on which what is_workday answers depends on when it
\* is called: the weekdays whose date a request can store a custom holiday
\* for.  On every other day no custom_holidays row can exist, and the call
\* answers the same at any time.
ReadDays(y, m) ==
    SelectSeq([d \in 1..DaysInMonth(y, m) |-> d],
              LAMBDA d : /\ Calendar[y][m][d].weekday < 5
                         /\ \E i \in DOMAIN DateTexts :
                                DateTexts[i] = Calendar[y][m][d].date_str)

\* What the calls is_workday(date) of one loop over a month answered: `read`
\* holds the answers on ReadDays, in the order the loop made the calls.
WorkdaysOf(y, m, read) ==
    [d \in 1..DaysInMonth(y, m) |->
        IF \E i \in DOMAIN read : ReadDays(y, m)[i] = d
        THEN read[CHOOSE i \in DOMAIN read : ReadDays(y, m)[i] = d]
        ELSE IsWorkday(y, m, d)]

\* The answers of a loop that no other request comes between.
WorkdaysNow(y, m) == [d \in 1..DaysInMonth(y, m) |-> IsWorkday(y, m, d)]

\* The loop of calculate_wio_stats over the days from `day` on; workdays[d]
\* is what is_workday answered for day d.
RECURSIVE StatsLoop(_, _, _, _, _, _)
StatsLoop(y, m, day, status_dict, workdays, acc) ==
    IF day > DaysInMonth(y, m) THEN acc
    ELSE IF workdays[day]
         THEN LET day_data == DictGet(status_dict, Calendar[y][m][day].date_str,
                                      [status |-> "WFH", work_hours |-> FullDay])
                  work_hours == day_data.work_hours
              IN  StatsLoop(y, m, day + 1, status_dict, workdays,
                      [total_workdays |-> acc.total_workdays + work_hours,
                       wio_days |-> acc.wio_days
                                     + (IF day_data.status = "WIO" THEN work_hours ELSE 0)])
         ELSE StatsLoop(y, m, day + 1, status_dict, workdays, acc)

\* calculate_wio_stats(year, month), given the rows its SELECT returned and
\* what its calls of is_workday answered.
WioStats(y, m, status_dict, workdays) ==
    LET sums == StatsLoop(y, m, 1, status_dict, workdays,
                          [total_workdays |-> 0, wio_days |-> 0])
        total_workdays == sums.total_workdays
        wio_days == sums.wio_days
    IN  [total_workdays |-> total_workdays,
         wio_days |-> wio_days,
         wio_percentage |-> IF total_workdays > 0 THEN Round1(wio_days, total_workdays) ELSE 0,
         remaining_workdays |-> IF status_dict # <<>> THEN total_workdays - wio_days
                                ELSE total_workdays]

\* calculate_wio_stats(year, month) when no other request comes between its
\* reads.
CalculateWioStats(y, m) == WioStats(y, m, StatusData(y, m), WorkdaysNow(y, m))

\* The settings texts whose float() is modelled: the whole percentages 0..100,
\* which float() reads, and 'None', on which it raises ValueError.  Other
\* texts are not stored by the requests of this model.
Percentages == 0..100
IsFloatText(text) == \E n \in Percentages : ToString(n) = text
FloatRaises(text) == text = "None"
\* float(text)
ParseFloat(text) == CHOOSE n \in Percentages : ToString(n) = text

\* The <<wio_target, total_workdays>>, of the targets in Percentages and the
\* totals from -64.0 to 64.0 days, at which the double
\* wio_target / 100 * total_workdays lands just above the integer that the
\* exact product equals: 28.0 / 100 * 25.0 is 7.000000000000001.  On no pair
\* of that range does the double land below the exact product's ceiling.
CeilOvershoots ==
    {<<14, 100>>, <<28, 50>>, <<28, 100>>, <<56, 25>>, <<56, 50>>, <<56, 75>>,
     <<56, 100>>, <<58, -100>>}

\* math.ceil(wio_target / 100 * total_workdays), total_workdays in half days:
\* the ceiling of the exact product, and one more where the double overshoots.
TargetWioDays(wio_target, total_workdays) ==
    -((-(wio_target * total_workdays)) \div (100 * FullDay))
        + (IF <<wio_target, total_workdays>> \in CeilOvershoots THEN 1 ELSE 0)

\* One entry of calendar_data; is_workday is what is_workday(current_date)
\* answered.
CalendarDay(y, m, day, status_dict, custom_holidays_dict, is_workday) ==
    LET date_str == Calendar[y][m][day].date_str
        weekday == Calendar[y][m][day].weekday
        desc == SelectSeq(custom_holidays_dict, LAMBDA r : r.date = Val(date_str))
        is_custom_holiday == desc # <<>>
        is_legal_holiday ==
            HAS_CHINESE_CALENDAR /\ Calendar[y][m][day].cc_is_holiday /\ weekday < 5
        day_type == IF ~is_workday
                    THEN (IF weekday >= 5 THEN "weekend" ELSE "holiday")
                    ELSE "workday"
        holiday_type == IF day_type = "holiday"
                        THEN (IF is_custom_holiday THEN Val("custom")
                              ELSE IF is_legal_holiday THEN Val("legal")
                              ELSE Val("unknown"))
                        ELSE NULL
        day_data == DictGet(status_dict, date_str,
                            [status |-> IF day_type = "workday" THEN "WFH" ELSE day_type,
                             work_hours |-> FullDay])
    IN  [date |-> date_str, day |-> day, weekday |-> weekday,
         type |-> day_type, status |-> day_data.status,
         work_hours |-> day_data.work_hours, holiday_type |-> holiday_type,
         holiday_description |-> IF is_custom_holiday
                                 THEN desc[Len(desc)].description ELSE NULL]

\* The rows of SELECT date, description FROM custom_holidays WHERE date LIKE ?
CustomHolidaysData(y, m) ==
    LET rows == SelectSeq(custom_holidays, LAMBDA r : Like(r.date, MonthPrefix(y, m)))
    IN  [i \in DOMAIN rows |-> [date |-> rows[i].date, description |-> rows[i].description]]

\* The JSON body of get_month_data, given what each of its reads returned:
\* `reads` holds status_data, custom_holidays_data and wio_target, what
\* calculate_wio_stats selected (stats_status_data), and what is_workday
\* answered on ReadDays in the calendar loop (calendar_workdays) and in
\* calculate_wio_stats (stats_workdays).
MonthBody(y, m, reads) ==
    LET status_dict == reads.status_data
        custom_holidays_dict == reads.custom_holidays_data
        wio_target == Get(reads.wio_target)
        calendar_workdays == WorkdaysOf(y, m, reads.calendar_workdays)
        stats == WioStats(y, m, reads.stats_status_data,
                          WorkdaysOf(y, m, reads.stats_workdays))
        target_wio_days == TargetWioDays(wio_target, stats.total_workdays)
        days_needed == Max(0, FullDay * target_wio_days - stats.wio_days)
    IN  [calendar |-> [day \in 1..DaysInMonth(y, m) |->
                          CalendarDay(y, m, day, status_dict, custom_holidays_dict,
                                      calendar_workdays[day])],
         stats |-> [total_workdays |-> stats.total_workdays,
                    wio_days |-> stats.wio_days,
                    wio_percentage |-> stats.wio_percentage,
                    remaining_workdays |-> stats.remaining_workdays,
                    wio_target |-> wio_target,
                    target_wio_days |-> target_wio_days,
                    days_needed |-> days_needed]]

\* The JSON body of get_month_data when no other request comes between its
\* reads.
MonthData(y, m, wio_target) ==
    LET workdays == [i \in DOMAIN ReadDays(y, m) |-> IsWorkday(y, m, ReadDays(y, m)[i])]
    IN  MonthBody(y, m, [status_data |-> StatusData(y, m),
                         custom_holidays_data |-> CustomHolidaysData(y, m),
                         wio_target |-> Val(wio_target),
                         calendar_workdays |-> workdays,
                         stats_status_data |-> StatusData(y, m),
                         stats_workdays |-> workdays])

-----------------------------------------------------------------------------
(* Responses *)

Redirect(handler, to) ==
    [handler |-> handler, kind |-> "redirect", code |-> 302, location |-> to]
Template(handler, name, error) ==
    [handler |-> handler, kind |-> "html", code |-> 200, template |-> name, error |-> error]
Json(handler, code, body) ==
    [handler |-> handler, kind |-> "json", code |-> code, body |-> body]
\* An exception no handler catches: Flask answers 500.
ServerError(handler) == [handler |-> handler, kind |-> "error", code |-> 500]
Success(handler) == Json(handler, 200, [success |-> TRUE])

\* hashlib.sha256(password.encode()).hexdigest(): taken to be free of collisions
Sha256(password) == <<"sha256", password>>
DEFAULT_PASSWORD_HASH == Sha256("wio2025")

-----------------------------------------------------------------------------
(* What the requests carry *)

Passwords == {"wio2025", "guess"}
Thursday == Val("2025-01-02")
Saturday == Val("2025-01-04")

\* Half a day, three days and a negative number of days, as work_hours.
HalfDay == Val(1)
ThreeDays == Val(6)
MinusThirtyDays == Val(-60)

\* Bodies of POST /api/day_status.
DayStatusBodies ==
    [date : {Thursday}, status : {Val("WIO"), Val("WFH"), Val("holiday")}]
    \cup [date : {Thursday}, status : {Val("WIO")},
          work_hours : {NULL, HalfDay, ThreeDays, MinusThirtyDays}]
    \cup [date : {NULL}, status : {Val("WIO")}]
    \cup {[date |-> Thursday, status |-> NULL], [status |-> Val("WIO")]}

\* Bodies of DELETE /api/day_status and the date of DELETE /api/holidays.
DeleteBodies == [date : {Thursday, Saturday, NULL}]

\* Bodies of POST /api/holidays.
HolidayBodies ==
    {[date |-> Thursday, description |-> Val("leave")],
     [date |-> Saturday, description |-> Val("shift"), is_workday |-> Val(1)],
     [date |-> Thursday]}

\* Bodies of POST /api/settings.
SettingsBodies ==
    [wio_target : {Val("1"), Val("28"), Val("100"), NULL}]

\* Bodies of POST /api/import.
ImportStatusLists ==
    {<<[date |-> Thursday, status |-> Val("WFH")]>>,
     <<[date |-> Thursday, status |-> Val("WIO"), work_hours |-> HalfDay],
       [date |-> Saturday]>>,
     <<[date |-> NULL, status |-> Val("WIO")]>>}
ImportHolidayLists ==
    {<<[date |-> Saturday, description |-> Val("shift"), is_workday |-> Val(1)]>>,
     <<[date |-> Saturday, description |-> Val("shift")], [date |-> Thursday]>>}
ImportSettings ==
    {[wio_target |-> Val("100")], [wio_target |-> NULL]}
ImportBodies ==
    {<<>>, [daily_status |-> <<>>]}
    \cup {[version |-> Val("1.0")]}
    \cup [version : {Val("1.0")}, daily_status : ImportStatusLists]
    \cup [version : {Val("1.0")}, custom_holidays : ImportHolidayLists]
    \cup [version : {Val("1.0")}, settings : ImportSettings]
    \cup [version : {Val("1.0")}, daily_status : ImportStatusLists,
          settings : ImportSettings]

\* The few bodies of each kind that arrive while other requests are in flight.
FewDayStatusBodies ==
    {[date |-> Thursday, status |-> Val("WIO")], [date |-> Thursday, status |-> NULL]}
FewHolidayBodies == {[date |-> Thursday, description |-> Val("leave")]}
FewSettingsBodies == {[wio_target |-> Val("100")]}
FewImportBodies ==
    {[version |-> Val("1.0"),
      daily_status |-> <<[date |-> Thursday, status |-> Val("WFH")]>>,
      settings |-> [wio_target |-> Val("100")]]}

-----------------------------------------------------------------------------
(* Start: init_database() on a new database file, no session cookie *)

Init ==
    /\ session_logged_in = FALSE
    /\ daily_status = <<>>
    /\ custom_holidays = <<>>
    /\ settings = <<[key |-> Val("wio_target"), value |-> Val("40")]>>
    /\ HAS_CHINESE_CALENDAR \in BOOLEAN
    /\ db_locked = FALSE
    /\ in_flight = {}
    /\ response = [handler |-> "none"]

-----------------------------------------------------------------------------
(* Handlers *)

\* login(), POST
Login(password) ==
    /\ IF Sha256(password) = DEFAULT_PASSWORD_HASH
       THEN /\ session_logged_in' = TRUE
            /\ response' = Redirect("login", "index")
       ELSE /\ UNCHANGED session_logged_in
            /\ response' = Template("login", "login.html", TRUE)
    /\ UNCHANGED <<tables, HAS_CHINESE_CALENDAR, in_flight, db_locked>>

\* login(), GET
LoginPage ==
    /\ response' = IF session_logged_in THEN Redirect("login", "index")
                   ELSE Template("login", "login.html", FALSE)
    /\ UNCHANGED <<session_logged_in, tables, HAS_CHINESE_CALENDAR, in_flight, db_locked>>

\* logout()
Logout ==
    /\ session_logged_in' = FALSE
    /\ response' = Redirect("logout", "login")
    /\ UNCHANGED <<tables, HAS_CHINESE_CALENDAR, in_flight, db_locked>>

\* A decorator that lets every request through (C1 rules it out).
NoLoginRequired == TRUE

\* login_required: whether the wrapped handler runs
LoginRequired == session_logged_in

\* What login_required does instead of the handler.
Refused(handler) ==
    /\ response' = Redirect(handler, "login")
    /\ UNCHANGED <<session_logged_in, tables, HAS_CHINESE_CALENDAR, in_flight, db_locked>>

\* index()
Index ==
    /\ IF ~LoginRequired THEN Refused("index")
       ELSE /\ response' = Template("index", "index.html", FALSE)
            /\ UNCHANGED <<session_logged_in, tables, HAS_CHINESE_CALENDAR, in_flight, db_locked>>

\* A request joins those in flight, if there is room for it.
Admitted(request) ==
    /\ request \notin in_flight
    /\ Cardinality(in_flight) < MaxInFlight
    /\ in_flight' = in_flight \cup {request}

\* A request in flight goes on to its next read.
Proceeds(request, next) ==
    in_flight' = (in_flight \ {request}) \cup {next}

\* A request in flight is answered.
Answered(request, answer) ==
    /\ in_flight' = in_flight \ {request}
    /\ response' = answer

\* get_month_data(), up to its first read: SELECT ... FROM daily_status.
\* What the later reads return is not known yet.
GetMonthData(year, month) ==
    /\ IF ~LoginRequired THEN Refused("get_month_data")
       ELSE /\ Admitted([handler |-> "get_month_data", pc |-> "custom_holidays",
                         year |-> year, month |-> month,
                         status_data |-> StatusData(year, month),
                         custom_holidays_data |-> <<>>,
                         wio_target |-> NULL,
                         calendar_workdays |-> <<>>,
                         stats_status_data |-> <<>>,
                         stats_workdays |-> <<>>])
            /\ UNCHANGED <<session_logged_in, tables, HAS_CHINESE_CALENDAR, db_locked,
                           response>>

\* get_month_data(): SELECT date, description FROM custom_holidays
MonthReadsCustomHolidays(request) ==
    /\ request.handler = "get_month_data" /\ request.pc = "custom_holidays"
    /\ Proceeds(request,
                [request EXCEPT !.pc = "wio_target",
                     !.custom_holidays_data = CustomHolidaysData(request.year, request.month)])
    /\ UNCHANGED <<session_logged_in, tables, HAS_CHINESE_CALENDAR, db_locked, response>>

\* The read a get_month_data request makes after its wio_target, or after
\* the loop `loop` has asked is_workday `asked` times.
AfterCalls(request, loop, asked) ==
    IF asked < Len(ReadDays(request.year, request.month)) THEN loop
    ELSE IF loop = "calendar" THEN "stats_status"
    ELSE "done"

\* get_month_data(): SELECT value FROM settings WHERE key = 'wio_target',
\* and float() of it.
MonthReadsTarget(request) ==
    /\ request.handler = "get_month_data" /\ request.pc = "wio_target"
    /\ LET target_row == FetchOne(settings, "key", Val("wio_target"))
           text == Get(Get(target_row).value)
       IN  IF target_row # NULL /\ FloatRaises(text)
           THEN Answered(request, ServerError("get_month_data"))
           ELSE /\ target_row # NULL => IsFloatText(text)
                /\ Proceeds(request,
                            [request EXCEPT !.pc = AfterCalls(request, "calendar", 0),
                                 !.wio_target = IF target_row = NULL THEN Val(40)
                                                ELSE Val(ParseFloat(text))])
                /\ UNCHANGED response
    /\ UNCHANGED <<session_logged_in, tables, HAS_CHINESE_CALENDAR, db_locked>>

\* get_month_data(): the next call of is_workday in the calendar loop whose
\* answer depends on the time of the call.
MonthAsksWorkday(request) ==
    /\ request.handler = "get_month_data" /\ request.pc = "calendar"
    /\ LET asked == Len(request.calendar_workdays) + 1
           day == ReadDays(request.year, request.month)[asked]
       IN  Proceeds(request,
                    [request EXCEPT !.pc = AfterCalls(request, "calendar", asked),
                         !.calendar_workdays =
                             Append(@, IsWorkday(request.year, request.month, day))])
    /\ UNCHANGED <<session_logged_in, tables, HAS_CHINESE_CALENDAR, db_locked, response>>

\* What get_month_data returns once all its reads are made.
MonthAnswer(request) ==
    Json("get_month_data", 200, MonthBody(request.year, request.month, request))

\* A get_month_data request goes on to `next`, or is answered when `next`
\* has no read left to make.
MonthGoesOn(request, next) ==
    IF next.pc = "done"
    THEN Answered(request, MonthAnswer(next))
    ELSE Proceeds(request, next) /\ UNCHANGED response

\* calculate_wio_stats(): SELECT ... FROM daily_status, on its own connection
MonthReadsStatsStatus(request) ==
    /\ request.handler = "get_month_data" /\ request.pc = "stats_status"
    /\ MonthGoesOn(request,
                   [request EXCEPT !.pc = AfterCalls(request, "stats", 0),
                        !.stats_status_data = StatusData(request.year, request.month)])
    /\ UNCHANGED <<session_logged_in, tables, HAS_CHINESE_CALENDAR, db_locked>>

\* calculate_wio_stats(): the next call of is_workday whose answer depends
\* on the time of the call; after the last one get_month_data answers.
MonthStatsAsksWorkday(request) ==
    /\ request.handler = "get_month_data" /\ request.pc = "stats"
    /\ LET asked == Len(request.stats_workdays) + 1
           day == ReadDays(request.year, request.month)[asked]
       IN  MonthGoesOn(request,
                       [request EXCEPT !.pc = AfterCalls(request, "stats", asked),
                            !.stats_workdays =
                                Append(@, IsWorkday(request.year, request.month, day))])
    /\ UNCHANGED <<session_logged_in, tables, HAS_CHINESE_CALENDAR, db_locked>>

\* The connection a handler leaves open when it raises is closed, and its
\* transaction rolled back, when the interpreter collects it.
CollectGarbage ==
    /\ db_locked
    /\ db_locked' = FALSE
    /\ UNCHANGED <<session_logged_in, tables, HAS_CHINESE_CALENDAR, in_flight, response>>

\* The handler raised before its first write statement (or ran none).
Raised(handler) ==
    /\ response' = ServerError(handler)
    /\ UNCHANGED <<session_logged_in, tables, HAS_CHINESE_CALENDAR, in_flight, db_locked>>

\* The handler's write statement raised inside its transaction, which stays
\* open: "database is locked" to every other connection.
RaisedInTransaction(handler) ==
    /\ response' = ServerError(handler)
    /\ db_locked' = TRUE
    /\ UNCHANGED <<session_logged_in, tables, HAS_CHINESE_CALENDAR, in_flight>>

\* The row update_day_status binds: data['date'], data['status'],
\* data.get('work_hours', 1.0)
DayStatusRow(data) ==
    [date |-> data.date, status |-> data.status,
     work_hours |-> GetOr(data, "work_hours", Val(FullDay))]

\* update_day_status()
UpdateDayStatus(data) ==
    /\ IF ~LoginRequired THEN Refused("update_day_status")
       ELSE IF ~({"date", "status"} \subseteq DOMAIN data) THEN Raised("update_day_status")
       ELSE IF db_locked THEN Raised("update_day_status")
       ELSE IF data.status = NULL THEN RaisedInTransaction("update_day_status")
       ELSE /\ daily_status' = InsertOrReplace(daily_status, "date", DayStatusRow(data))
            /\ Len(daily_status') <= MaxRows
            /\ response' = Success("update_day_status")
            /\ UNCHANGED <<session_logged_in, custom_holidays, settings,
                           HAS_CHINESE_CALENDAR, in_flight, db_locked>>

\* delete_day_status()
DeleteDayStatus(data) ==
    /\ IF ~LoginRequired THEN Refused("delete_day_status")
       ELSE IF db_locked THEN Raised("delete_day_status")
       ELSE /\ daily_status' = DeleteWhere(daily_status, "date", data.date)
            /\ response' = Success("delete_day_status")
            /\ UNCHANGED <<session_logged_in, custom_holidays, settings,
                           HAS_CHINESE_CALENDAR, in_flight, db_locked>>

\* {row['key']: row['value'] for row in settings}
SettingsDict(rows) ==
    [k \in {Get(rows[i].key) : i \in DOMAIN rows} |->
        LET hit == SelectSeq(rows, LAMBDA r : r.key = Val(k))
        IN  hit[Len(hit)].value]

\* get_settings()
GetSettings ==
    /\ IF ~LoginRequired THEN Refused("get_settings")
       ELSE /\ response' = Json("get_settings", 200, SettingsDict(settings))
            /\ UNCHANGED <<session_logged_in, tables, HAS_CHINESE_CALENDAR, in_flight, db_locked>>

\* str(value)
Str(value) == IF value = NULL THEN Val("None") ELSE value

\* The loop of update_settings over data.items().
RECURSIVE StoreSettings(_, _, _)
StoreSettings(data, keys, rows) ==
    IF keys = {} THEN rows
    ELSE LET key == CHOOSE k \in keys : TRUE
         IN  StoreSettings(data, keys \ {key},
                 InsertOrReplace(rows, "key", [key |-> Val(key), value |-> Str(data[key])]))

\* update_settings()
UpdateSettings(data) ==
    /\ IF ~LoginRequired THEN Refused("update_settings")
       ELSE IF db_locked /\ DOMAIN data # {} THEN Raised("update_settings")
       ELSE /\ settings' = StoreSettings(data, DOMAIN data, settings)
            /\ Len(settings') <= MaxRows
            /\ response' = Success("update_settings")
            /\ UNCHANGED <<session_logged_in, daily_status, custom_holidays,
                           HAS_CHINESE_CALENDAR, in_flight, db_locked>>

\* The days of `days` in date order.
RECURSIVE InDateOrder(_)
InDateOrder(days) ==
    IF days = {} THEN <<>>
    ELSE LET first == CHOOSE a \in days : \A b \in days :
                          ToOrdinal(a[1], a[2], a[3]) <= ToOrdinal(b[1], b[2], b[3])
         IN  <<first>> \o InDateOrder(days \ {first})

\* The days the loops of get_holidays over a year's months and days stop at:
\* cc.is_holiday(current_date) and current_date.weekday() < 5
LegalHolidays ==
    [year \in Years |->
        InDateOrder({date \in Days : /\ date[1] = year
                                     /\ DayOf(date).cc_is_holiday
                                     /\ DayOf(date).weekday < 5})]

\* holidays_list after those loops: each such day the list does not hold
\* yet is appended.
LegalHolidayList(year, holidays_list) ==
    LET missing == SelectSeq(LegalHolidays[year],
                       LAMBDA date : ~\E i \in DOMAIN holidays_list :
                           holidays_list[i].date = Val(DayOf(date).date_str))
    IN  holidays_list \o
        [i \in DOMAIN missing |->
            [date |-> Val(DayOf(missing[i]).date_str),
             description |-> Val("legal holiday"),
             is_workday |-> FALSE, type |-> "legal"]]

\* The JSON body of get_holidays
HolidaysList(year) ==
    LET rows == SelectSeq(custom_holidays, LAMBDA r : Like(r.date, YearPrefix(year)))
        custom == [i \in DOMAIN rows |->
                      [date |-> rows[i].date, description |-> rows[i].description,
                       is_workday |-> Bool(rows[i].is_workday), type |-> "custom"]]
    IN  IF HAS_CHINESE_CALENDAR THEN LegalHolidayList(year, custom) ELSE custom

\* get_holidays()
GetHolidays(year) ==
    /\ IF ~LoginRequired THEN Refused("get_holidays")
       ELSE /\ response' = Json("get_holidays", 200, HolidaysList(year))
            /\ UNCHANGED <<session_logged_in, tables, HAS_CHINESE_CALENDAR, in_flight, db_locked>>

\* The row add_holiday binds: data['date'], data['description'],
\* data.get('is_workday', False)
HolidayRow(data) ==
    [date |-> data.date, description |-> data.description,
     is_workday |-> GetOr(data, "is_workday", Val(0))]

\* add_holiday()
AddHoliday(data) ==
    /\ IF ~LoginRequired THEN Refused("add_holiday")
       ELSE IF ~({"date", "description"} \subseteq DOMAIN data) THEN Raised("add_holiday")
       ELSE IF db_locked THEN Raised("add_holiday")
       ELSE /\ custom_holidays' = InsertOrReplace(custom_holidays, "date", HolidayRow(data))
            /\ Len(custom_holidays') <= MaxRows
            /\ response' = Success("add_holiday")
            /\ UNCHANGED <<session_logged_in, daily_status, settings,
                           HAS_CHINESE_CALENDAR, in_flight, db_locked>>

\* delete_holiday()
DeleteHoliday(args) ==
    /\ IF ~LoginRequired THEN Refused("delete_holiday")
       ELSE IF db_locked THEN Raised("delete_holiday")
       ELSE /\ custom_holidays' = DeleteWhere(custom_holidays, "date", args.date)
            /\ response' = Success("delete_holiday")
            /\ UNCHANGED <<session_logged_in, daily_status, settings,
                           HAS_CHINESE_CALENDAR, in_flight, db_locked>>

\* The rows of `texts`' dates, in the order of `texts`.
RECURSIVE RowsInTextOrder(_, _, _)
RowsInTextOrder(table, texts, i) ==
    IF i > Len(texts) THEN <<>>
    ELSE SelectSeq(table, LAMBDA r : r.date = Val(texts[i]))
           \o RowsInTextOrder(table, texts, i + 1)

\* SELECT * FROM table ORDER BY date: the NULL dates first, in rowid order
OrderByDate(table) ==
    SelectSeq(table, LAMBDA r : r.date = NULL) \o RowsInTextOrder(table, DateTexts, 1)

\* The JSON body of export_data (export_date is the clock's text), given what
\* its three SELECTs returned.
ExportOf(daily_status_rows, custom_holidays_rows, settings_rows) ==
    [daily_status |-> daily_status_rows,
     custom_holidays |-> custom_holidays_rows,
     settings |-> SettingsDict(settings_rows),
     export_date |-> Val("now"),
     version |-> Val("1.0")]

\* The JSON body of export_data when no other request comes between its
\* SELECTs.
ExportBody ==
    ExportOf(OrderByDate(daily_status), OrderByDate(custom_holidays), settings)

\* export_data(), up to its first read: SELECT * FROM daily_status ORDER BY date
ExportData ==
    /\ IF ~LoginRequired THEN Refused("export_data")
       ELSE /\ Admitted([handler |-> "export_data", pc |-> "custom_holidays",
                         daily_status |-> OrderByDate(daily_status),
                         custom_holidays |-> <<>>])
            /\ UNCHANGED <<session_logged_in, tables, HAS_CHINESE_CALENDAR, db_locked,
                           response>>

\* export_data(): SELECT * FROM custom_holidays ORDER BY date
ExportReadsCustomHolidays(request) ==
    /\ request.handler = "export_data" /\ request.pc = "custom_holidays"
    /\ Proceeds(request,
                [request EXCEPT !.pc = "settings",
                     !.custom_holidays = OrderByDate(custom_holidays)])
    /\ UNCHANGED <<session_logged_in, tables, HAS_CHINESE_CALENDAR, db_locked, response>>

\* export_data(): SELECT key, value FROM settings, and the answer
ExportReadsSettings(request) ==
    /\ request.handler = "export_data" /\ request.pc = "settings"
    /\ Answered(request,
                Json("export_data", 200,
                     ExportOf(request.daily_status, request.custom_holidays, settings)))
    /\ UNCHANGED <<session_logged_in, tables, HAS_CHINESE_CALENDAR, db_locked>>

\* What the try block of import_data has done so far: whether it still
\* runs, whether a write statement has opened its transaction, the message
\* of the exception that stopped it, and the tables as its connection sees them.
ImportStart ==
    [ok |-> TRUE, began |-> FALSE, error |-> NULL,
     daily_status |-> daily_status, custom_holidays |-> custom_holidays,
     settings |-> settings]

\* The exception that stops the block; `in_statement` says that a write
\* statement raised it, with the transaction open.
ImportStopped(run, error, in_statement) ==
    [run EXCEPT !.ok = FALSE, !.error = Val(error),
                !.began = run.began \/ in_statement]

\* One pass of `for record in data['daily_status']`.
ImportStatusRecord(run, record) ==
    IF "date" \notin DOMAIN record THEN ImportStopped(run, "'date'", FALSE)
    ELSE IF "status" \notin DOMAIN record THEN ImportStopped(run, "'status'", FALSE)
    ELSE IF db_locked THEN ImportStopped(run, "database is locked", FALSE)
    ELSE IF record.status = NULL
    THEN ImportStopped(run, "NOT NULL constraint failed: daily_status.status", TRUE)
    ELSE [run EXCEPT !.began = TRUE,
                     !.daily_status =
                         InsertOrReplace(run.daily_status, "date", DayStatusRow(record))]

\* One pass of `for holiday in data['custom_holidays']`.
ImportHolidayRecord(run, holiday) ==
    IF "date" \notin DOMAIN holiday THEN ImportStopped(run, "'date'", FALSE)
    ELSE IF "description" \notin DOMAIN holiday
    THEN ImportStopped(run, "'description'", FALSE)
    ELSE IF db_locked THEN ImportStopped(run, "database is locked", FALSE)
    ELSE [run EXCEPT !.began = TRUE,
                     !.custom_holidays =
                         InsertOrReplace(run.custom_holidays, "date", HolidayRow(holiday))]

\* One pass of `for key, value in data['settings'].items()`.
ImportSetting(run, key, value) ==
    IF db_locked THEN ImportStopped(run, "database is locked", FALSE)
    ELSE IF value = NULL
    THEN ImportStopped(run, "NOT NULL constraint failed: settings.value", TRUE)
    ELSE [run EXCEPT !.began = TRUE,
                     !.settings = InsertOrReplace(run.settings, "key",
                                                  [key |-> Val(key), value |-> value])]

RECURSIVE ImportStatusRecords(_, _, _)
ImportStatusRecords(run, records, i) ==
    IF i > Len(records) \/ ~run.ok THEN run
    ELSE ImportStatusRecords(ImportStatusRecord(run, records[i]), records, i + 1)

RECURSIVE ImportHolidayRecords(_, _, _)
ImportHolidayRecords(run, records, i) ==
    IF i > Len(records) \/ ~run.ok THEN run
    ELSE ImportHolidayRecords(ImportHolidayRecord(run, records[i]), records, i + 1)

RECURSIVE ImportSettingsItems(_, _, _)
ImportSettingsItems(run, items, keys) ==
    IF keys = {} \/ ~run.ok THEN run
    ELSE LET key == CHOOSE k \in keys : TRUE
         IN  ImportSettingsItems(ImportSetting(run, key, items[key]), items, keys \ {key})

\* The try block of import_data, up to conn.commit().
ImportRun(data) ==
    LET after_status ==
            IF "daily_status" \in DOMAIN data
            THEN ImportStatusRecords(ImportStart, data.daily_status, 1)
            ELSE ImportStart
        after_holidays ==
            IF "custom_holidays" \in DOMAIN data
            THEN ImportHolidayRecords(after_status, data.custom_holidays, 1)
            ELSE after_status
    IN  IF "settings" \in DOMAIN data
        THEN ImportSettingsItems(after_holidays, data.settings, DOMAIN data.settings)
        ELSE after_holidays

\* An import_data whose except branch keeps the rows written before the
\* exception, as a commit in that branch would (C8 rules it out).
ImportDataWithoutRollback(data) ==
    IF ~LoginRequired THEN Refused("import_data")
    ELSE IF data = <<>> \/ "version" \notin DOMAIN data
    THEN /\ response' = Json("import_data", 400,
                             [success |-> FALSE, error |-> Val("invalid import format")])
         /\ UNCHANGED <<session_logged_in, tables, HAS_CHINESE_CALENDAR, in_flight, db_locked>>
    ELSE LET run == ImportRun(data)
         IN  /\ daily_status' = run.daily_status
             /\ custom_holidays' = run.custom_holidays
             /\ settings' = run.settings
             /\ Len(daily_status') <= MaxRows
             /\ Len(custom_holidays') <= MaxRows
             /\ Len(settings') <= MaxRows
             /\ response' = IF run.ok THEN Json("import_data", 200,
                                      [success |-> TRUE, message |-> Val("import succeeded")])
                            ELSE Json("import_data", 500,
                                      [success |-> FALSE, error |-> run.error])
             /\ UNCHANGED <<session_logged_in, HAS_CHINESE_CALENDAR, in_flight, db_locked>>

\* import_data()
ImportData(data) ==
    IF ~LoginRequired THEN Refused("import_data")
    ELSE IF data = <<>> \/ "version" \notin DOMAIN data
    THEN /\ response' = Json("import_data", 400,
                             [success |-> FALSE, error |-> Val("invalid import format")])
         /\ UNCHANGED <<session_logged_in, tables, HAS_CHINESE_CALENDAR, in_flight, db_locked>>
    ELSE LET run == ImportRun(data)
         IN  IF run.ok
             THEN /\ daily_status' = run.daily_status
                  /\ custom_holidays' = run.custom_holidays
                  /\ settings' = run.settings
                  /\ Len(daily_status') <= MaxRows
                  /\ Len(custom_holidays') <= MaxRows
                  /\ Len(settings') <= MaxRows
                  /\ response' = Json("import_data", 200,
                                      [success |-> TRUE, message |-> Val("import succeeded")])
                  /\ UNCHANGED <<session_logged_in, HAS_CHINESE_CALENDAR, in_flight, db_locked>>
             ELSE /\ response' = Json("import_data", 500,
                                      [success |-> FALSE, error |-> run.error])
                  /\ db_locked' = (db_locked \/ run.began)
                  /\ UNCHANGED <<session_logged_in, tables, HAS_CHINESE_CALENDAR, in_flight>>

\* Requests arrive while others are in flight: every handler, on a few
\* bodies each.
Next ==
    \/ \E password \in Passwords : Login(password)
    \/ LoginPage
    \/ Logout
    \/ Index
    \/ \E ym \in Months : GetMonthData(ym[1], ym[2])
    \/ \E data \in FewDayStatusBodies : UpdateDayStatus(data)
    \/ DeleteDayStatus([date |-> Thursday])
    \/ GetSettings
    \/ \E data \in FewSettingsBodies : UpdateSettings(data)
    \/ \E year \in Years : GetHolidays(year)
    \/ \E data \in FewHolidayBodies : AddHoliday(data)
    \/ DeleteHoliday([date |-> Thursday])
    \/ ExportData
    \/ \E data \in FewImportBodies : ImportData(data)
    \/ CollectGarbage
    \/ \E request \in in_flight : MonthReadsCustomHolidays(request)
    \/ \E request \in in_flight : MonthReadsTarget(request)
    \/ \E request \in in_flight : MonthAsksWorkday(request)
    \/ \E request \in in_flight : MonthReadsStatsStatus(request)
    \/ \E request \in in_flight : MonthStatsAsksWorkday(request)
    \/ \E request \in in_flight : ExportReadsCustomHolidays(request)
    \/ \E request \in in_flight : ExportReadsSettings(request)

Spec == Init /\ [][Next]_vars

\* Requests arrive one at a time, each after the one before it is answered:
\* every handler, on all the bodies.
NextInTurn ==
    \/ in_flight = {} /\ \E password \in Passwords : Login(password)
    \/ in_flight = {} /\ LoginPage
    \/ in_flight = {} /\ Logout
    \/ in_flight = {} /\ Index
    \/ in_flight = {} /\ \E ym \in Months : GetMonthData(ym[1], ym[2])
    \/ in_flight = {} /\ \E data \in DayStatusBodies : UpdateDayStatus(data)
    \/ in_flight = {} /\ \E data \in DeleteBodies : DeleteDayStatus(data)
    \/ in_flight = {} /\ GetSettings
    \/ in_flight = {} /\ \E data \in SettingsBodies : UpdateSettings(data)
    \/ in_flight = {} /\ \E year \in Years : GetHolidays(year)
    \/ in_flight = {} /\ \E data \in HolidayBodies : AddHoliday(data)
    \/ in_flight = {} /\ \E args \in DeleteBodies : DeleteHoliday(args)
    \/ in_flight = {} /\ ExportData
    \/ in_flight = {} /\ \E data \in ImportBodies : ImportData(data)
    \/ in_flight = {} /\ CollectGarbage
    \/ \E request \in in_flight : MonthReadsCustomHolidays(request)
    \/ \E request \in in_flight : MonthReadsTarget(request)
    \/ \E request \in in_flight : MonthAsksWorkday(request)
    \/ \E request \in in_flight : MonthReadsStatsStatus(request)
    \/ \E request \in in_flight : MonthStatsAsksWorkday(request)
    \/ \E request \in in_flight : ExportReadsCustomHolidays(request)
    \/ \E request \in in_flight : ExportReadsSettings(request)

SpecInTurn == Init /\ [][NextInTurn]_vars

-----------------------------------------------------------------------------
(* Authentication *)

\* The routes behind login_required.
DataHandlers ==
    {"index", "get_month_data", "update_day_status", "delete_day_status",
     "get_settings", "update_settings", "get_holidays", "add_holiday",
     "delete_holiday", "export_data", "import_data"}

\* A login POST whose password hashes to the configured hash.
SuccessfulLogin ==
    \E password \in Passwords :
        Sha256(password) = DEFAULT_PASSWORD_HASH /\ Login(password)

\* C1: Only an authenticated user can read or change data.  While the
\* session is not logged in, no step changes the three tables and no request
\* is admitted among those in flight; a request made then, if it goes to a
\* data route, is answered with the redirect to login and nothing else (the
\* steps that change in_flight belong to requests made while logged in); and
\* the session becomes logged in only by a login POST whose password hashes
\* to the configured hash (so after logout it stays not logged in until such
\* a login).
OnlyAuthenticatedAccess ==
    [][~session_logged_in =>
          /\ tables' = tables
          /\ Cardinality(in_flight') <= Cardinality(in_flight)
          /\ (in_flight' = in_flight /\ response' # response
                   /\ response'.handler \in DataHandlers
                 => response' = Redirect(response'.handler, "login"))
          /\ (session_logged_in' => SuccessfulLogin)]_vars

\* C1, its case: data is stored, the user has logged out, and an export
\* request has just been turned away.
RefusedExportOfStoredData ==
    /\ ~session_logged_in
    /\ daily_status # <<>>
    /\ response = Redirect("export_data", "login")

-----------------------------------------------------------------------------
(* Table invariants *)

\* No two rows of `table` carry the same date.
OnePerDate(table) ==
    \A i, j \in DOMAIN table : table[i].date = table[j].date => i = j

\* C2: daily_status holds at most one record per date and custom_holidays
\* holds at most one record per date, after any sequence of operations.
OneRecordPerDate == OnePerDate(daily_status) /\ OnePerDate(custom_holidays)

\* C3: every record returned by export carries a non-null work_hours (1.0
\* when no hours were supplied for the date).
ExportedWorkHoursNotNull ==
    \A i \in DOMAIN ExportBody.daily_status :
        ExportBody.daily_status[i].work_hours # NULL

\* C4: every record in daily_status has a status that is one of the two
\* attendance values, WIO or WFH.
StatusIsAttendanceValue ==
    \A i \in DOMAIN daily_status :
        daily_status[i].status \in {Val("WIO"), Val("WFH")}

-----------------------------------------------------------------------------
(* The monthly statistics, as the specification words them *)

\* The last stored record of a date, NULL when the date has none.
RecordOf(date_str) ==
    LET hit == SelectSeq(daily_status, LAMBDA r : r.date = Val(date_str))
    IN  IF hit = <<>> THEN NULL ELSE Val(hit[Len(hit)])

\* The hours a day counts for: its record's work_hours, 1.0 without one.
HoursOf(date_str) ==
    IF RecordOf(date_str) = NULL THEN FullDay
    ELSE Coalesce(Get(RecordOf(date_str)).work_hours)

\* Whether a day's status is in-office.
InOffice(date_str) ==
    RecordOf(date_str) # NULL /\ Get(RecordOf(date_str)).status = Val("WIO")

\* The sum of the first n entries of a sequence of hours.
RECURSIVE SumOverDays(_, _)
SumOverDays(hours, n) ==
    IF n = 0 THEN 0 ELSE hours[n] + SumOverDays(hours, n - 1)

\* The hours of the month's workdays, and those of them in office.
WorkdayHours(y, m) ==
    SumOverDays([day \in 1..DaysInMonth(y, m) |->
                    IF IsWorkday(y, m, day)
                    THEN HoursOf(Calendar[y][m][day].date_str) ELSE 0],
                DaysInMonth(y, m))

InOfficeHours(y, m) ==
    SumOverDays([day \in 1..DaysInMonth(y, m) |->
                    IF IsWorkday(y, m, day) /\ InOffice(Calendar[y][m][day].date_str)
                    THEN HoursOf(Calendar[y][m][day].date_str) ELSE 0],
                DaysInMonth(y, m))

\* wio / total * 100 rounded to one decimal, in tenths; 0 when total is 0.
PercentageOf(wio, total) ==
    IF total = 0 THEN 0
    ELSE IF total > 0 THEN Round1(wio, total)
    ELSE Round1(-wio, -total)

\* C5: for every month, calculate_wio_stats returns total_workdays equal to
\* the sum of work_hours over the days classified as workdays, wio_days equal
\* to the sum over those of them whose status is in-office, remaining_workdays
\* equal to their difference, and wio_percentage equal to wio_days /
\* total_workdays * 100 rounded to one decimal (0 when total_workdays is 0).
StatsAreTheSums ==
    \A ym \in Months :
        LET stats == CalculateWioStats(ym[1], ym[2])
        IN  /\ stats.total_workdays = WorkdayHours(ym[1], ym[2])
            /\ stats.wio_days = InOfficeHours(ym[1], ym[2])
            /\ stats.remaining_workdays = stats.total_workdays - stats.wio_days
            /\ stats.wio_percentage =
                   PercentageOf(stats.wio_days, stats.total_workdays)

\* The days of the months the requests ask about.
MonthDays == {date \in Days : <<date[1], date[2]>> \in Months}

\* C6: a custom holiday record overrides the base calendar: a date with a
\* custom_holidays record is a workday exactly when the record's is_workday
\* flag is set, and a date without one is a workday exactly when it is a
\* weekday the base calendar does not mark as a holiday.
CustomHolidayOverrides ==
    \A date \in MonthDays :
        LET custom_holiday ==
                FetchOne(custom_holidays, "date", Val(DayOf(date).date_str))
        IN  IsWorkday(date[1], date[2], date[3]) =
                IF custom_holiday # NULL THEN Bool(Get(custom_holiday).is_workday)
                ELSE /\ DayOf(date).weekday < 5
                     /\ ~(HAS_CHINESE_CALENDAR /\ DayOf(date).cc_is_holiday)

\* The stored text of the target setting, NULL when none is stored.
StoredTarget ==
    LET target_row == FetchOne(settings, "key", Val("wio_target"))
    IN  IF target_row = NULL THEN NULL ELSE Get(target_row).value

\* Whether the stored target, if any, reads as a percentage.
TargetIsReadable == StoredTarget = NULL \/ IsFloatText(Get(StoredTarget))

\* T: the stored target, 40 when none is stored.
Target == IF StoredTarget = NULL THEN 40 ELSE ParseFloat(Get(StoredTarget))

\* ceil(T / 100 * total_workdays) of the real numbers: the least integer that
\* is at least the product, total_workdays in half days.
ExactCeil(wio_target, total_workdays) ==
    -((-(wio_target * total_workdays)) \div (100 * FullDay))

\* C7: month_data reports days_needed = max(0, target_wio_days - wio_days)
\* with target_wio_days = ceil(T / 100 * total_workdays); days_needed is never
\* negative, and it is 0 exactly when the in-office hours amount to at least
\* T percent of total_workdays.
DaysNeededMeetsTarget ==
    TargetIsReadable =>
        \A ym \in Months :
            LET stats == MonthData(ym[1], ym[2], Target).stats
            IN  /\ stats.target_wio_days = ExactCeil(Target, stats.total_workdays)
                /\ stats.days_needed =
                       Max(0, FullDay * stats.target_wio_days - stats.wio_days)
                /\ stats.days_needed >= 0
                /\ (stats.days_needed = 0) =
                       (100 * stats.wio_days >= Target * stats.total_workdays)

\* C9: the statistics of every month satisfy 0 <= wio_days <= total_workdays
\* and 0 <= wio_percentage <= 100, and target_wio_days <= total_workdays
\* whenever the target is at most 100.
StatsWithinBounds ==
    \A ym \in Months :
        LET stats == CalculateWioStats(ym[1], ym[2])
        IN  /\ 0 <= stats.wio_days
            /\ stats.wio_days <= stats.total_workdays
            /\ 0 <= stats.wio_percentage
            /\ stats.wio_percentage <= 1000
            /\ (TargetIsReadable /\ Target <= 100
                   => FullDay * TargetWioDays(Target, stats.total_workdays)
                          <= stats.total_workdays)

-----------------------------------------------------------------------------
(* Import *)

\* A body with a daily_status record lacking 'date' or 'status', or a
\* custom_holidays record lacking 'date' or 'description'.
Malformed(data) ==
    \/ /\ "daily_status" \in DOMAIN data
       /\ \E i \in DOMAIN data.daily_status :
              ~({"date", "status"} \subseteq DOMAIN data.daily_status[i])
    \/ /\ "custom_holidays" \in DOMAIN data
       /\ \E i \in DOMAIN data.custom_holidays :
              ~({"date", "description"} \subseteq DOMAIN data.custom_holidays[i])

\* What a step must look like to be a proper answer to an import of `data`:
\* 400 and success=false for an empty body or one without 'version', 500
\* and success=false for a body with version and a malformed record, and
\* unchanged tables unless the answer is the success.
ProperImportAnswer(data) ==
    /\ ((data = <<>> \/ "version" \notin DOMAIN data)
           => /\ response'.code = 400
              /\ response'.body.success = FALSE)
    /\ (("version" \in DOMAIN data /\ Malformed(data))
           => /\ response'.code = 500
              /\ response'.body.success = FALSE)
    /\ (response'.code # 200 => tables' = tables)
    /\ (response'.code = 200 => response'.body.success = TRUE)

\* C8: an import_data request that fails leaves the stored state unchanged:
\* an empty body or one without 'version' is answered with success=false and
\* status 400, a body with version whose records are malformed with
\* success=false and status 500, and whenever the answer is not a success the
\* three tables hold what they held before the request.  (Stated in the
\* contrapositive: a step that is not a proper answer to `data` is not an
\* import of `data` by the logged-in user.)
FailedImportChangesNothing ==
    [][\A data \in ImportBodies :
           (response'.handler = "import_data" /\ in_flight' = in_flight
                /\ ~ProperImportAnswer(data))
               => ~(session_logged_in /\ ImportData(data))]_vars

\* C8, its case: an import whose second holiday record has no description
\* was answered 500 after its first record had been written, and the first
\* record is not in the table.
ImportFailedAfterFirstRecord ==
    /\ response = Json("import_data", 500,
                       [success |-> FALSE, error |-> Val("'description'")])
    /\ custom_holidays = <<>>

\* Whether two tables hold the same rows, whatever their order.
SameRows(a, b) ==
    /\ Len(a) = Len(b)
    /\ {a[i] : i \in DOMAIN a} = {b[i] : i \in DOMAIN b}

\* C10: export followed by import is a round trip: in any reachable state,
\* passing the result of export_data unchanged to import_data succeeds and
\* leaves daily_status, custom_holidays and settings as they were (stated
\* here for the states in which no failed request still holds the database).
ExportImportRoundTrip ==
    ~db_locked =>
        LET run == ImportRun(ExportBody)
        IN  /\ run.ok
            /\ SameRows(run.daily_status, daily_status)
            /\ SameRows(run.custom_holidays, custom_holidays)
            /\ SameRows(run.settings, settings)

=============================================================================
